---- MODULE Spec2Model ----
(***************************************************************************)
(* A model of the extraction techniques of extraction/techniques.py and of *)
(* the two example modules.  A parsed HTML document is a sequence of       *)
(* element nodes in document order; every node names its parent (0 is the  *)
(* document root), its own text and its attributes.  The XPath queries the *)
(* techniques run through parsel are operators over that sequence.         *)
(***************************************************************************)
EXTENDS Integers, Sequences, FiniteSets, TLC

\* html is the document the caller supplies.  technique, addresses_arg,
\* extracted, instance and raised describe the most recent call: what ran, the
\* argument a constructor was given, and what the call returned or raised.
\* stdout is the process's standard output, one entry for each printed line.
VARIABLES html, technique, addresses_arg, extracted, instance, raised, stdout

vars == <<html, technique, addresses_arg, extracted, instance, raised, stdout>>

\* ------------------------------------------------------------- bounds
\* Fragments concatenated into one document.
MaxFrags == 2
\* Repetitions of one tag in the documents that exercise the caps.
MaxRepeat == 11
\* Lines the model keeps of the process's standard output.
MaxStdout == 4

\* ------------------------------------------------------ Python values
\* None, as distinct from every string a document holds.
None == "<None>"

EmptyDict == [k \in {} |-> <<>>]

\* bool(x) of a str-or-None value.
TruthyStr(x) == x # None /\ x # ""

\* bool(x) of a list.
TruthyList(x) == Len(x) > 0

\* if dest not in extracted: extracted[dest] = []; extracted[dest].append(v)
DictAppend(d, k, v) ==
    IF k \in DOMAIN d THEN [d EXCEPT ![k] = Append(@, v)] ELSE d @@ (k :> <<v>>)

\* sep.join(list)
RECURSIVE Join(_, _)
Join(sep, list) ==
    IF Len(list) = 0 THEN ""
    ELSE IF Len(list) = 1 THEN list[1]
    ELSE list[1] \o sep \o Join(sep, Tail(list))

\* Variant: the slice bound is ignored.
SliceMut(list, n) == list
\* list[:n]
Slice(list, n) == IF Len(list) <= n THEN list ELSE SubSeq(list, 1, n)

\* needle in hay, for two strings held as sequences of chunks.
\* Variant: equality in place of containment.
PyInMut(needle, hay) == needle = hay
PyIn(needle, hay) ==
    \E i \in 1..(Len(hay) + 1) :
        /\ i + Len(needle) - 1 <= Len(hay)
        /\ SubSeq(hay, i, i + Len(needle) - 1) = needle

\* SelectorList.extract_first()
\* Variant: the last element in place of the first.
extract_firstMut(list) == IF Len(list) = 0 THEN None ELSE list[Len(list)]
extract_first(list) == IF Len(list) = 0 THEN None ELSE list[1]

\* ------------------------------------------------------------ documents
\* Attribute tables.
NoAttr == [k \in {} |-> ""]
A1(k, v) == k :> v
A2(k1, v1, k2, v2) == (k1 :> v1) @@ (k2 :> v2)
A3(k1, v1, k2, v2, k3, v3) == (k1 :> v1) @@ (k2 :> v2) @@ (k3 :> v3)

\* An element under parent p (an index of the same fragment, 0 the root).
El(tag, p, text, attrib) ==
    [tag |-> tag, parent |-> p, text |-> text, attrib |-> attrib]

\* d1 followed by d2 under the same root.
Concat(d1, d2) ==
    d1 \o [i \in 1..Len(d2) |->
            [d2[i] EXCEPT !.parent = IF @ = 0 THEN 0 ELSE @ + Len(d1)]]

RECURSIVE ConcatAll(_)
ConcatAll(frags) ==
    IF Len(frags) = 0 THEN <<>> ELSE Concat(frags[1], ConcatAll(Tail(frags)))

RECURSIVE Repeat(_, _)
Repeat(frag, n) == IF n = 0 THEN <<>> ELSE Concat(frag, Repeat(frag, n - 1))

\* ---------------------------------------------------------------- XPath
Indices(doc) == [i \in 1..Len(doc) |-> i]

\* j is a proper descendant of i (0 is the root).
RECURSIVE IsDescendant(_, _, _)
IsDescendant(doc, j, i) ==
    IF j = 0 THEN FALSE
    ELSE IF doc[j].parent = i THEN TRUE
    ELSE IsDescendant(doc, doc[j].parent, i)

\* //tag, and .//tag from the root: every element of that tag, document order.
XPathAll(doc, tag) ==
    LET Test(i) == doc[i].tag = tag IN SelectSeq(Indices(doc), Test)

\* .//tag from element ctx: the descendants of ctx of that tag, document order.
\* Variant: the absolute path //tag in place of the relative .//tag.
XPathDescMut(doc, ctx, tag) == XPathAll(doc, tag)
XPathDesc(doc, ctx, tag) ==
    LET Test(i) == doc[i].tag = tag /\ IsDescendant(doc, i, ctx)
    IN SelectSeq(Indices(doc), Test)

\* The XPath string-value of element i: its text and its descendants' text.
RECURSIVE TextFrom(_, _, _)
TextFrom(doc, i, k) ==
    IF k > Len(doc) THEN ""
    ELSE (IF k = i \/ IsDescendant(doc, k, i) THEN doc[k].text ELSE "")
            \o TextFrom(doc, i, k + 1)

StringValue(doc, i) == TextFrom(doc, i, i)

\* string(nodeset): the string-value of the first node, "" of an empty set.
\* parsel wraps the single string in a one-element SelectorList.
XPathString(doc, nodes) ==
    <<IF Len(nodes) = 0 THEN "" ELSE StringValue(doc, nodes[1])>>

\* //tag/text(): the text nodes of the elements of that tag; an element
\* with no text has no text node.
XPathText(doc, nodes) ==
    LET HasText(i) == doc[i].text # ""
        with == SelectSeq(nodes, HasText)
    IN [k \in 1..Len(with) |-> doc[with[k]].text]

\* [@name="value"] on a node list.
WithAttr(doc, nodes, name, value) ==
    LET Test(i) == name \in DOMAIN doc[i].attrib /\ doc[i].attrib[name] = value
    IN SelectSeq(nodes, Test)

\* --------------------------------------------------- Technique (base)
TechniqueExtract(doc) ==
    [titles |-> <<>>, descriptions |-> <<>>, images |-> <<>>, urls |-> <<>>]

\* ------------------------------------------------------------ HeadTags
meta_name_map == ("description" :> "descriptions") @@ ("author" :> "authors")

Canonical == <<"canon", "ical">>
Alternate == <<"alter", "nate">>
RssType == "application/rss+xml"

\* title_tag = selector.xpath('//title/text()').extract_first()
HeadTitle(doc, ex) ==
    LET title_tag == extract_first(XPathText(doc, XPathAll(doc, "title")))
    IN IF TruthyStr(title_tag) THEN ("titles" :> <<title_tag>>) @@ ex ELSE ex

\* for meta_tag in selector.xpath('//meta'): ...
RECURSIVE HeadMeta(_, _, _)
HeadMeta(doc, metas, ex) ==
    IF Len(metas) = 0 THEN ex
    ELSE LET attrib == doc[metas[1]].attrib
             hit == /\ "name" \in DOMAIN attrib
                    /\ "content" \in DOMAIN attrib
                    /\ attrib["name"] \in DOMAIN meta_name_map
         IN HeadMeta(doc, Tail(metas),
                IF hit
                THEN DictAppend(ex, meta_name_map[attrib["name"]], attrib["content"])
                ELSE ex)

\* One link tag of the loop over selector.xpath('//link').
HeadLinkStep(attrib, ex) ==
    IF "rel" \in DOMAIN attrib
    THEN IF /\ (PyIn(Canonical, attrib["rel"]) \/ attrib["rel"] = Canonical)
            /\ "href" \in DOMAIN attrib
         THEN DictAppend(ex, "urls", attrib["href"])
         ELSE IF /\ (PyIn(Alternate, attrib["rel"]) \/ attrib["rel"] = Alternate)
                 /\ "type" \in DOMAIN attrib
                 /\ attrib["type"] = RssType
                 /\ "href" \in DOMAIN attrib
              THEN DictAppend(ex, "feeds", attrib["href"])
              ELSE ex
    ELSE ex

RECURSIVE HeadLinks(_, _, _)
HeadLinks(doc, links, ex) ==
    IF Len(links) = 0 THEN ex
    ELSE HeadLinks(doc, Tail(links), HeadLinkStep(doc[links[1]].attrib, ex))

HeadTagsExtract(doc) ==
    HeadLinks(doc, XPathAll(doc, "link"),
        HeadMeta(doc, XPathAll(doc, "meta"),
            HeadTitle(doc, EmptyDict)))

\* ----------------------------------------------- FacebookOpengraphTags
\* Variant: the key attribute of the Twitter subclass.
FacebookKeyAttrMut == "name"
FacebookKeyAttr == "property"

FacebookPropertyMap ==
    ("og:title" :> "titles") @@ ("og:url" :> "urls")
        @@ ("og:image" :> "images") @@ ("og:description" :> "descriptions")

\* The loop of FacebookOpengraphTags.extract, shared by its subclass.
RECURSIVE MetaPropertyLoop(_, _, _, _, _)
MetaPropertyLoop(doc, metas, key_attr, property_map, ex) ==
    IF Len(metas) = 0 THEN ex
    ELSE LET attrib == doc[metas[1]].attrib
             hit == /\ key_attr \in DOMAIN attrib
                    /\ "content" \in DOMAIN attrib
                    /\ attrib[key_attr] \in DOMAIN property_map
         IN MetaPropertyLoop(doc, Tail(metas), key_attr, property_map,
                IF hit
                THEN DictAppend(ex, property_map[attrib[key_attr]], attrib["content"])
                ELSE ex)

FacebookOpengraphTagsExtract(doc) ==
    MetaPropertyLoop(doc, XPathAll(doc, "meta"),
                     FacebookKeyAttr, FacebookPropertyMap, EmptyDict)

\* ---------------------------------------------- TwitterSummaryCardTags
TwitterKeyAttr == "name"

TwitterPropertyMap ==
    ("twitter:title" :> "titles") @@ ("twitter:description" :> "descriptions")
        @@ ("twitter:image" :> "images")

TwitterSummaryCardTagsExtract(doc) ==
    MetaPropertyLoop(doc, XPathAll(doc, "meta"),
                     TwitterKeyAttr, TwitterPropertyMap, EmptyDict)

\* --------------------------------------------------- HTML5SemanticTags
\* title = article.xpath('string(.//h1)').extract()
ArticleTitle(doc, article) == XPathString(doc, XPathDesc(doc, article, "h1"))

\* desc = article.xpath('string(.//p)')
ArticleDesc(doc, article) == XPathString(doc, XPathDesc(doc, article, "p"))

RECURSIVE HTML5Titles(_, _)
HTML5Titles(doc, articles) ==
    IF Len(articles) = 0 THEN <<>>
    ELSE LET title == ArticleTitle(doc, articles[1])
         IN (IF TruthyList(title) THEN <<Join(" ", title)>> ELSE <<>>)
                \o HTML5Titles(doc, Tail(articles))

RECURSIVE HTML5Descriptions(_, _)
HTML5Descriptions(doc, articles) ==
    IF Len(articles) = 0 THEN <<>>
    ELSE LET desc == ArticleDesc(doc, articles[1])
         IN (IF TruthyList(desc) THEN <<Join(" ", desc)>> ELSE <<>>)
                \o HTML5Descriptions(doc, Tail(articles))

\* print(title), once for every article.
HTML5Printed(doc, articles) ==
    [k \in 1..Len(articles) |-> ArticleTitle(doc, articles[k])]

\* for source in video.xpath('.//source'): if 'src' in source.attrib: ...
RECURSIVE SourceSrcs(_, _)
SourceSrcs(doc, sources) ==
    IF Len(sources) = 0 THEN <<>>
    ELSE (IF "src" \in DOMAIN doc[sources[1]].attrib
          THEN <<doc[sources[1]].attrib["src"]>> ELSE <<>>)
            \o SourceSrcs(doc, Tail(sources))

\* for video in selector.xpath('.//video'): ...
RECURSIVE HTML5Videos(_, _)
HTML5Videos(doc, videos) ==
    IF Len(videos) = 0 THEN <<>>
    ELSE SourceSrcs(doc, XPathDesc(doc, videos[1], "source"))
            \o HTML5Videos(doc, Tail(videos))

HTML5SemanticTagsExtract(doc) ==
    [titles |-> HTML5Titles(doc, XPathAll(doc, "article")),
     descriptions |-> HTML5Descriptions(doc, XPathAll(doc, "article")),
     videos |-> HTML5Videos(doc, XPathAll(doc, "video"))]

\* -------------------------------------------------------- SemanticTags
\* (tag of the 'string(//tag)' query, destination list, store_first_n)
extract_string ==
    << <<"h1", "titles", 3>>, <<"h2", "titles", 3>>,
       <<"h3", "titles", 1>>, <<"p", "descriptions", 5>> >>

\* (tag of the '//tag' query, destination list, attribute, store_first_n)
extract_attr == << <<"img", "images", "src", 10>> >>

\* soup.xpath(tag)[:max_to_store] of one extract_string rule.
StringFound(doc, rule) ==
    Slice(XPathString(doc, XPathAll(doc, rule[1])), rule[3])

\* soup.xpath(tag)[:max_to_store] of one extract_attr rule.
AttrFound(doc, rule) == Slice(XPathAll(doc, rule[1]), rule[4])

RECURSIVE AppendAll(_, _, _)
AppendAll(ex, dest, values) ==
    IF Len(values) = 0 THEN ex
    ELSE AppendAll(DictAppend(ex, dest, values[1]), dest, Tail(values))

RECURSIVE SemanticStrings(_, _, _)
SemanticStrings(doc, rules, ex) ==
    IF Len(rules) = 0 THEN ex
    ELSE SemanticStrings(doc, Tail(rules),
            AppendAll(ex, rules[1][2], StringFound(doc, rules[1])))

\* The values one extract_attr rule appends: the attribute of every found
\* element that has it.
RECURSIVE AttrValues(_, _, _)
AttrValues(doc, found, attribute) ==
    IF Len(found) = 0 THEN <<>>
    ELSE (IF attribute \in DOMAIN doc[found[1]].attrib
          THEN <<doc[found[1]].attrib[attribute]>> ELSE <<>>)
            \o AttrValues(doc, Tail(found), attribute)

RECURSIVE SemanticAttrs(_, _, _)
SemanticAttrs(doc, rules, ex) ==
    IF Len(rules) = 0 THEN ex
    ELSE SemanticAttrs(doc, Tail(rules),
            AppendAll(ex, rules[1][2],
                      AttrValues(doc, AttrFound(doc, rules[1]), rules[1][3])))

SemanticTagsExtract(doc) ==
    SemanticAttrs(doc, extract_attr, SemanticStrings(doc, extract_string, EmptyDict))

\* ------------------------------------------- examples: LethainComTechnique
\* SelectorList.xpath('string(.//tag)'): one string for every selector.
RECURSIVE EachString(_, _, _)
EachString(doc, ctxs, tag) ==
    IF Len(ctxs) = 0 THEN <<>>
    ELSE XPathString(doc, XPathDesc(doc, ctxs[1], tag))
            \o EachString(doc, Tail(ctxs), tag)

\* SelectorList.xpath('.//span[@class="date"]/text()')
RECURSIVE EachDate(_, _)
EachDate(doc, ctxs) ==
    IF Len(ctxs) = 0 THEN <<>>
    ELSE XPathText(doc, WithAttr(doc, XPathDesc(doc, ctxs[1], "span"), "class", "date"))
            \o EachDate(doc, Tail(ctxs))

\* .//span[@class="tag"]/a from element ctx.
TagAnchors(doc, ctx) ==
    LET spans == WithAttr(doc, XPathDesc(doc, ctx, "span"), "class", "tag")
        Test(i) == /\ doc[i].tag = "a"
                   /\ \E k \in 1..Len(spans) : doc[i].parent = spans[k]
    IN SelectSeq(Indices(doc), Test)

\* SelectorList.xpath('.//span[@class="tag"]/a/text()')
RECURSIVE EachTag(_, _)
EachTag(doc, ctxs) ==
    IF Len(ctxs) = 0 THEN <<>>
    ELSE XPathText(doc, TagAnchors(doc, ctxs[1])) \o EachTag(doc, Tail(ctxs))

\* SelectorList.xpath('.//img/@src')
RECURSIVE EachImgSrc(_, _)
EachImgSrc(doc, ctxs) ==
    IF Len(ctxs) = 0 THEN <<>>
    ELSE AttrValues(doc, XPathDesc(doc, ctxs[1], "img"), "src")
            \o EachImgSrc(doc, Tail(ctxs))

LethainComTechniqueExtract(doc) ==
    LET page_div == WithAttr(doc, XPathAll(doc, "div"), "class", "page")
        text_div == WithAttr(doc, XPathAll(doc, "div"), "class", "text")
    IN [titles |-> <<extract_first(EachString(doc, page_div, "h2"))>>,
        dates |-> <<extract_first(EachDate(doc, page_div))>>,
        descriptions |-> <<Join(" ", EachString(doc, text_div, "p"))>>,
        tags |-> EachTag(doc, page_div),
        images |-> EachImgSrc(doc, text_div)]

\* ---------------------------------------------- examples: AddressTechnique
AddressTechniqueExtract(doc) ==
    LET div == XPathString(doc, WithAttr(doc, XPathAll(doc, "div"), "id", "address"))
    IN [addresses |-> <<Join(" ", div)>>]

\* ---------------------------------------------- examples: AddressExtracted
\* A Python object: its class, the built-in class it derives from, its items.
Py(type, base, items) == [type |-> type, base |-> base, items |-> items]

PyNone == Py("NoneType", "NoneType", <<>>)

\* type(addresses) in (list, tuple)
TypeIsListOrTuple(v) == v.type \in {"list", "tuple"}

NoInstance == [made |-> FALSE, addresses |-> PyNone]

\* AddressExtracted.__init__: the instance made and the exception raised.
AddressExtractedNew(given) ==
    LET addresses == IF given = PyNone THEN Py("list", "list", <<>>)
                     ELSE given
    IN IF TypeIsListOrTuple(addresses)
       THEN [instance |-> [made |-> TRUE, addresses |-> addresses], raised |-> None]
       ELSE [instance |-> NoInstance, raised |-> "AssertionError"]

\* ------------------------------------------------------ input documents
Meta(key, value, content) == <<El("meta", 0, "", A2(key, value, "content", content))>>

Link(attrib) == <<El("link", 0, "", attrib)>>

HeadFrags ==
    { <<El("title", 0, "", NoAttr)>>,
      <<El("title", 0, "Digg v4", NoAttr)>>,
      <<El("title", 0, "Other", NoAttr)>>,
      Meta("property", "og:title", "The Rock"),
      Meta("property", "og:title", ""),
      <<El("meta", 0, "", A1("property", "og:title"))>>,
      Meta("property", "og:image", "rock.jpg"),
      Meta("property", "og:description", "A group of U.S. Marines"),
      Meta("property", "og:url", "http://www.imdb.com/"),
      Meta("property", "og:type", "movie"),
      Meta("name", "og:title", "Named"),
      Meta("name", "description", "A blog"),
      Meta("name", "author", "Will Larson"),
      Meta("name", "twitter:title", "Tweet") }

LinkFrags ==
    { Link(A2("rel", Canonical, "href", "http://lethain.com/")),
      Link(A1("rel", Canonical)),
      Link(A3("rel", Alternate, "type", RssType, "href", "/feeds/")),
      Link(A3("rel", Alternate, "type", "application/atom+xml", "href", "/atom/")),
      Link(A3("rel", Alternate \o <<" ">> \o Canonical, "type", RssType,
              "href", "/both/")),
      Link(A2("rel", <<"non">> \o Canonical, "href", "/non/")),
      Link(A1("href", "/norel/")),
      Link(A2("rel", <<"style", "sheet">>, "href", "/site.css")) }

ExampleArticle ==
    << El("article", 0, "", NoAttr),
       El("h1", 1, "This is a title", NoAttr),
       El("p", 1, "This is a description.", NoAttr),
       El("p", 1, "This is not a description.", NoAttr) >>

ExampleVideo ==
    << El("video", 0, "", NoAttr),
       El("source", 1, "", A1("src", "this_is_a_video.mp4")) >>

OutsideH1 == <<El("h1", 0, "This is not a title to HTML5SemanticTags", NoAttr)>>

BodyFrags ==
    { OutsideH1,
      <<El("p", 0, "Outside text", NoAttr)>>,
      ExampleArticle,
      <<El("article", 0, "", NoAttr), El("p", 1, "Only text", NoAttr)>>,
      <<El("article", 0, "", NoAttr), El("h1", 1, "Only title", NoAttr)>>,
      <<El("article", 0, "", NoAttr)>>,
      << El("article", 0, "", NoAttr),
         El("article", 1, "", NoAttr),
         El("h1", 2, "Inner title", NoAttr),
         El("p", 2, "Inner text", NoAttr),
         El("p", 1, "Outer text", NoAttr) >>,
      ExampleVideo,
      <<El("video", 0, "", NoAttr), El("source", 1, "", NoAttr)>>,
      << El("video", 0, "", NoAttr),
         El("source", 1, "", A1("src", "first.mp4")),
         El("video", 1, "", NoAttr),
         El("source", 3, "", A1("src", "nested.mp4")),
         El("source", 1, "", A1("src", "last.mp4")) >>,
      <<El("source", 0, "", A1("src", "stray.mp4"))>>,
      <<El("img", 0, "", A1("src", "logo.png"))>>,
      <<El("img", 0, "", A1("alt", "no source"))>> }

\* The page of the LethainComTechnique docstring.
LethainPage ==
    << El("div", 0, "", A1("class", "page")),
       El("h2", 1, "", NoAttr),
       El("a", 2, "Digg v4's Architecture", A1("href", "/digg-v4")),
       El("span", 1, "08/19/2012", A1("class", "date")),
       El("span", 1, "", A1("class", "tag")),
       El("a", 5, "architecture", A1("href", "/tags/architecture/")),
       El("span", 5, "(5)", A1("class", "tagcount")),
       El("div", 1, "", A1("class", "text")),
       El("p", 8, "A month ago history reset with...", NoAttr),
       El("img", 8, "", A1("src", "diagram.png")) >>

DivFrags ==
    { LethainPage,
      <<El("div", 0, "", A1("class", "page"))>>,
      <<El("div", 0, "", A1("class", "text")), El("p", 1, "Loose text", NoAttr)>>,
      <<El("div", 0, "1 Main St", A1("id", "address"))>>,
      <<El("div", 0, "plain", NoAttr)>>,
      <<El("span", 0, "plain", NoAttr)>> }

\* The page of the HTML5SemanticTags docstring.
ExampleDoc == ConcatAll(<<OutsideH1, ExampleArticle, ExampleVideo>>)

SeqsUpTo(S, n) == UNION {[1..k -> S] : k \in 0..n}

Family(frags) == {ConcatAll(fs) : fs \in SeqsUpTo(frags, MaxFrags)}

\* n of each tag SemanticTags sweeps; the first m img tags have no src.
CapDoc(n, m) ==
    ConcatAll(<< Repeat(<<El("h1", 0, "H1", NoAttr)>>, n),
                 Repeat(<<El("h2", 0, "H2", NoAttr)>>, n),
                 Repeat(<<El("h3", 0, "H3", NoAttr)>>, n),
                 Repeat(<<El("p", 0, "P", NoAttr)>>, n),
                 Repeat(<<El("img", 0, "", NoAttr)>>, m),
                 Repeat(<<El("img", 0, "", A1("src", "i.png"))>>, n) >>)

CapDocs == {CapDoc(n, m) : n \in 0..MaxRepeat, m \in 0..1}

Docs ==
    Family(HeadFrags) \cup Family(LinkFrags) \cup Family(BodyFrags)
        \cup Family(DivFrags) \cup CapDocs \cup {ExampleDoc}

\* The values a caller passes as addresses: None (or nothing), lists, tuples,
\* instances of subclasses of list and tuple, and values that are no sequence.
AddressArgs ==
    { PyNone,
      Py("list", "list", <<>>),
      Py("list", "list", <<"1 Main St">>),
      Py("tuple", "tuple", <<"1 Main St">>),
      Py("SelectorList", "list", <<"1 Main St">>),
      Py("Address", "tuple", <<"1 Main St">>),
      Py("str", "str", <<"1 Main St">>),
      Py("dict", "dict", <<>>),
      Py("set", "set", <<"1 Main St">>) }

\* ---------------------------------------------------------------- actions
Init ==
    /\ html \in Docs
    /\ technique = "none"
    /\ addresses_arg = PyNone
    /\ extracted = EmptyDict
    /\ instance = NoInstance
    /\ raised = None
    /\ stdout = <<>>

\* What every extract call leaves: its name and the mapping it returned.
Returned(name, mapping) ==
    /\ technique' = name
    /\ extracted' = mapping
    /\ addresses_arg' = PyNone
    /\ instance' = NoInstance
    /\ raised' = None
    /\ UNCHANGED html

CallTechnique ==
    /\ Returned("Technique", TechniqueExtract(html))
    /\ UNCHANGED stdout

CallHeadTags ==
    /\ Returned("HeadTags", HeadTagsExtract(html))
    /\ UNCHANGED stdout

CallFacebookOpengraphTags ==
    /\ Returned("FacebookOpengraphTags", FacebookOpengraphTagsExtract(html))
    /\ UNCHANGED stdout

CallTwitterSummaryCardTags ==
    /\ Returned("TwitterSummaryCardTags", TwitterSummaryCardTagsExtract(html))
    /\ UNCHANGED stdout

CallHTML5SemanticTags ==
    LET printed == HTML5Printed(html, XPathAll(html, "article"))
    IN /\ Len(stdout) + Len(printed) <= MaxStdout
       /\ Returned("HTML5SemanticTags", HTML5SemanticTagsExtract(html))
       /\ stdout' = stdout \o printed

CallSemanticTags ==
    /\ Returned("SemanticTags", SemanticTagsExtract(html))
    /\ UNCHANGED stdout

CallLethainComTechnique ==
    /\ Returned("LethainComTechnique", LethainComTechniqueExtract(html))
    /\ UNCHANGED stdout

CallAddressTechnique ==
    /\ Returned("AddressTechnique", AddressTechniqueExtract(html))
    /\ UNCHANGED stdout

NewAddressExtracted ==
    \E a \in AddressArgs :
        /\ technique' = "AddressExtracted"
        /\ addresses_arg' = a
        /\ instance' = AddressExtractedNew(a).instance
        /\ raised' = AddressExtractedNew(a).raised
        /\ extracted' = EmptyDict
        /\ UNCHANGED <<html, stdout>>

Next ==
    \/ CallTechnique
    \/ CallHeadTags
    \/ CallFacebookOpengraphTags
    \/ CallTwitterSummaryCardTags
    \/ CallHTML5SemanticTags
    \/ CallSemanticTags
    \/ CallLethainComTechnique
    \/ CallAddressTechnique
    \/ NewAddressExtracted

Spec == Init /\ [][Next]_vars

\* ============================================================ properties
\* The list a mapping holds for a field, empty when the field is absent.
FieldOf(ex, f) == IF f \in DOMAIN ex THEN ex[f] ELSE <<>>

\* The elements of a tag, and whether element i lies inside element a.
Tagged(doc, tag) == {i \in 1..Len(doc) : doc[i].tag = tag}

Inside(doc, i, a) == IsDescendant(doc, i, a)

\* The nodes of a set in document order.
RECURSIVE InOrder(_)
InOrder(S) ==
    IF S = {} THEN <<>>
    ELSE LET m == CHOOSE x \in S : \A y \in S : x <= y
         IN <<m>> \o InOrder(S \ {m})

\* ---------------------------------------------------------------- C1
\* The content values of the meta tags with property = prop and a content.
OgContents(doc, prop) ==
    LET hits == {i \in Tagged(doc, "meta") :
                    /\ "property" \in DOMAIN doc[i].attrib
                    /\ doc[i].attrib["property"] = prop
                    /\ "content" \in DOMAIN doc[i].attrib}
        order == InOrder(hits)
    IN [k \in 1..Len(order) |-> doc[order[k]].attrib["content"]]

OgFieldIs(field, prop) ==
    IF OgContents(html, prop) = <<>>
    THEN field \notin DOMAIN extracted
    ELSE field \in DOMAIN extracted /\ extracted[field] = OgContents(html, prop)

\* C1: FacebookOpengraphTags.extract returns, for titles, descriptions, images
\* and urls, exactly the content values of the meta tags whose property is
\* og:title, og:description, og:image and og:url and that have a content, one
\* value per tag in document order; a field with no such tag is absent.
C1_OpengraphFields ==
    technique = "FacebookOpengraphTags" =>
        /\ OgFieldIs("titles", "og:title")
        /\ OgFieldIs("descriptions", "og:description")
        /\ OgFieldIs("images", "og:image")
        /\ OgFieldIs("urls", "og:url")
        /\ DOMAIN extracted \subseteq {"titles", "descriptions", "images", "urls"}

C1_Witness ==
    /\ technique = "FacebookOpengraphTags"
    /\ Len(html) = 2
    /\ FieldOf(extracted, "titles") = <<"", "The Rock">>

\* ---------------------------------------------------------------- C2
TitlesWithText(doc) == {i \in Tagged(doc, "title") : doc[i].text # ""}

FirstOf(S) == CHOOSE x \in S : \A y \in S : x <= y

\* C2 as stated: whenever the document has a title tag, also an empty one,
\* HeadTags.extract returns titles as a one-element list holding the text of
\* the title tag.
C2_Original ==
    (technique = "HeadTags" /\ Tagged(html, "title") # {}) =>
        /\ "titles" \in DOMAIN extracted
        /\ extracted["titles"] = <<html[FirstOf(Tagged(html, "title"))].text>>

\* C2 amended: when some title tag has text, titles is the one-element list
\* holding the text of the first title tag that has text; when no title tag
\* has text, titles is absent.
C2_TitleWithText ==
    technique = "HeadTags" =>
        IF TitlesWithText(html) # {}
        THEN /\ "titles" \in DOMAIN extracted
             /\ extracted["titles"] = <<html[FirstOf(TitlesWithText(html))].text>>
        ELSE "titles" \notin DOMAIN extracted

C2_Witness ==
    /\ technique = "HeadTags"
    /\ Len(html) = 2
    /\ html[1].tag = "title" /\ html[1].text = ""
    /\ html[2].tag = "title"
    /\ FieldOf(extracted, "titles") = <<"Other">>

\* ---------------------------------------------------------------- C3
\* C3: whatever the number of h1, h2, h3, p and img tags, SemanticTags.extract
\* stores at most 3 titles from h1 and h2 combined, at most 1 from h3, at most
\* 5 descriptions and at most 10 images.
C3_SemanticCaps ==
    technique = "SemanticTags" =>
        LET fromH1 == StringFound(html, extract_string[1])
            fromH2 == StringFound(html, extract_string[2])
            fromH3 == StringFound(html, extract_string[3])
        IN /\ FieldOf(extracted, "titles") = fromH1 \o fromH2 \o fromH3
           /\ Len(fromH1) + Len(fromH2) <= 3
           /\ Len(fromH3) <= 1
           /\ Len(FieldOf(extracted, "descriptions")) <= 5
           /\ Len(FieldOf(extracted, "images")) <= 10

C3_Witness ==
    /\ technique = "SemanticTags"
    /\ Cardinality(Tagged(html, "h1") \cup Tagged(html, "h2")) > 3
    /\ Cardinality(Tagged(html, "h3")) > 1
    /\ Cardinality(Tagged(html, "p")) > 5
    /\ Cardinality({i \in Tagged(html, "img") : "src" \in DOMAIN html[i].attrib}) > 10
    /\ Len(FieldOf(extracted, "images")) = 10

\* ---------------------------------------------------------------- C4
BuiltinTechniques ==
    {"Technique", "HeadTags", "FacebookOpengraphTags", "TwitterSummaryCardTags",
     "HTML5SemanticTags", "SemanticTags"}

RecognizedTags ==
    {"title", "meta", "link", "article", "video", "source",
     "h1", "h2", "h3", "p", "img"}

\* C4: on a document with none of the tags the techniques look for, every
\* built-in technique returns only absent or empty fields, so no field has a
\* first element.
C4_NothingFound ==
    (/\ technique \in BuiltinTechniques
     /\ \A i \in 1..Len(html) : html[i].tag \notin RecognizedTags) =>
        \A f \in DOMAIN extracted : extracted[f] = <<>>

\* ---------------------------------------------------------------- C5
\* C5: no list a technique returns holds None.
C5_NoNulls ==
    \A f \in DOMAIN extracted :
        \A k \in 1..Len(extracted[f]) : extracted[f][k] # None

\* ---------------------------------------------------------------- C6
\* C6: no call writes to the process's output streams.
C6_NoSideEffects == [][stdout' = stdout]_vars

\* ---------------------------------------------------------------- C7
\* The text of the first tag element inside article a, "" when there is none.
FirstTextIn(doc, a, tag) ==
    LET inside == {i \in Tagged(doc, tag) : Inside(doc, i, a)}
    IN IF inside = {} THEN "" ELSE StringValue(doc, FirstOf(inside))

\* For the articles in document order, the text of the first tag element of
\* each, leaving out the articles that give no text.
ArticleTexts(doc, tag) ==
    LET articles == InOrder(Tagged(doc, "article"))
        all == [k \in 1..Len(articles) |-> FirstTextIn(doc, articles[k], tag)]
        NonEmpty(t) == t # ""
    IN SelectSeq(all, NonEmpty)

NonEmptyOf(list) == LET NonEmpty(t) == t # "" IN SelectSeq(list, NonEmpty)

\* The texts of the tag elements that lie inside no article.
OutsideTexts(doc, tag) ==
    {doc[i].text : i \in {j \in Tagged(doc, tag) :
                            \A a \in Tagged(doc, "article") : ~Inside(doc, j, a)}}

\* titles and descriptions come from the first h1 and the first p of the
\* articles, in the document order of the articles, and from nowhere else.
ArticleFieldsHold ==
    /\ NonEmptyOf(FieldOf(extracted, "titles")) = ArticleTexts(html, "h1")
    /\ NonEmptyOf(FieldOf(extracted, "descriptions")) = ArticleTexts(html, "p")
    /\ \A k \in 1..Len(FieldOf(extracted, "titles")) :
            extracted["titles"][k] \notin OutsideTexts(html, "h1")
    /\ \A k \in 1..Len(FieldOf(extracted, "descriptions")) :
            extracted["descriptions"][k] \notin OutsideTexts(html, "p")

ExampleHolds ==
    html = ExampleDoc =>
        extracted = [titles |-> <<"This is a title">>,
                     descriptions |-> <<"This is a description.">>,
                     videos |-> <<"this_is_a_video.mp4">>]

\* The src attributes of a set of source elements, in document order.
SrcsOf(doc, S) ==
    LET order == InOrder({i \in S : "src" \in DOMAIN doc[i].attrib})
    IN [k \in 1..Len(order) |-> doc[order[k]].attrib["src"]]

\* The source elements inside some video element, each once.
SourcesInVideos(doc) ==
    {i \in Tagged(doc, "source") : \E v \in Tagged(doc, "video") : Inside(doc, i, v)}

\* For each video element in document order, the src attributes of the source
\* elements inside it.
RECURSIVE SrcsPerVideo(_, _)
SrcsPerVideo(doc, videos) ==
    IF Len(videos) = 0 THEN <<>>
    ELSE SrcsOf(doc, {i \in Tagged(doc, "source") : Inside(doc, i, videos[1])})
            \o SrcsPerVideo(doc, Tail(videos))

\* C7 as stated: titles and descriptions come only from the first h1 and first
\* p of each article, in article order; videos is the list of the src
\* attributes of the source elements inside video elements in document order;
\* the documented example gives the documented values.
C7_Original ==
    technique = "HTML5SemanticTags" =>
        /\ ArticleFieldsHold
        /\ ExampleHolds
        /\ FieldOf(extracted, "videos") = SrcsOf(html, SourcesInVideos(html))

\* C7 amended: as stated, except that videos lists, for each video element in
\* document order, the src attributes of the source elements inside it, so a
\* source inside nested video elements appears once for each of them.
C7_ArticleAndVideo ==
    technique = "HTML5SemanticTags" =>
        /\ ArticleFieldsHold
        /\ ExampleHolds
        /\ FieldOf(extracted, "videos")
                = SrcsPerVideo(html, InOrder(Tagged(html, "video")))

C7_Witness ==
    /\ technique = "HTML5SemanticTags"
    /\ extracted = [titles |-> <<"This is a title">>,
                    descriptions |-> <<"This is a description.">>,
                    videos |-> <<"first.mp4", "nested.mp4", "last.mp4", "nested.mp4">>]

\* ---------------------------------------------------------------- C8
\* isinstance(v, (list, tuple))
ListLike(v) == v.base \in {"list", "tuple"}

\* C8: None gives a new empty list, a list or tuple is stored unchanged, any
\* value that is no list or tuple raises an assertion error and leaves no
\* instance, and every list-like value is accepted.
C8_AddressesValidated ==
    technique = "AddressExtracted" =>
        /\ addresses_arg = PyNone =>
                /\ raised = None /\ instance.made
                /\ instance.addresses = Py("list", "list", <<>>)
        /\ ListLike(addresses_arg) =>
                /\ raised = None /\ instance.made
                /\ instance.addresses = addresses_arg
        /\ (addresses_arg # PyNone /\ ~ListLike(addresses_arg)) =>
                /\ raised = "AssertionError" /\ ~instance.made

\* ---------------------------------------------------------------- C9
ArticlesWith(doc, tag) ==
    {a \in Tagged(doc, "article") : \E i \in Tagged(doc, tag) : Inside(doc, i, a)}

\* C9: an article with no h1 (no p) adds no entry to titles (descriptions):
\* the number of entries is the number of articles that contain an h1 (a p).
C9_MissingSkipped ==
    technique = "HTML5SemanticTags" =>
        /\ Len(FieldOf(extracted, "titles")) = Cardinality(ArticlesWith(html, "h1"))
        /\ Len(FieldOf(extracted, "descriptions")) = Cardinality(ArticlesWith(html, "p"))

\* --------------------------------------------------------------- C10
\* needle occurs in hay at some offset.
OccursIn(needle, hay) ==
    \E off \in 0..Len(hay) :
        /\ off + Len(needle) <= Len(hay)
        /\ \A k \in 1..Len(needle) : hay[off + k] = needle[k]

\* word is one of the space-separated names of rel.
Names(rel, word) ==
    \E off \in 0..Len(rel) :
        /\ off + Len(word) <= Len(rel)
        /\ \A k \in 1..Len(word) : rel[off + k] = word[k]
        /\ off = 0 \/ rel[off] = " "
        /\ off + Len(word) = Len(rel) \/ rel[off + Len(word) + 1] = " "

\* The href values of the link tags that satisfy Test, in document order.
Hrefs(doc, Test(_)) ==
    LET order == InOrder({i \in Tagged(doc, "link") :
                            /\ "rel" \in DOMAIN doc[i].attrib
                            /\ "href" \in DOMAIN doc[i].attrib
                            /\ Test(doc[i].attrib)})
    IN [k \in 1..Len(order) |-> doc[order[k]].attrib["href"]]

IsRss(attrib) == "type" \in DOMAIN attrib /\ attrib["type"] = RssType

\* C10 as stated: a link whose rel names canonical gives its href to urls; a
\* link whose rel names alternate, not canonical, with the RSS type gives its
\* href to feeds; any other link gives nothing.
C10_Original ==
    technique = "HeadTags" =>
        LET NamesCanonical(attrib) == Names(attrib["rel"], Canonical)
            NamesFeed(attrib) == /\ ~Names(attrib["rel"], Canonical)
                                 /\ Names(attrib["rel"], Alternate)
                                 /\ IsRss(attrib)
        IN /\ FieldOf(extracted, "urls") = Hrefs(html, NamesCanonical)
           /\ FieldOf(extracted, "feeds") = Hrefs(html, NamesFeed)

\* C10 amended: a link whose rel contains the text canonical anywhere gives
\* its href to urls; otherwise a link whose rel contains the text alternate,
\* with the RSS type, gives its href to feeds; any other link gives nothing;
\* no link gives more than one value; a field nothing is given to is absent.
C10_LinkFields ==
    technique = "HeadTags" =>
        LET HasCanonical(attrib) == OccursIn(Canonical, attrib["rel"])
            HasFeed(attrib) == /\ ~OccursIn(Canonical, attrib["rel"])
                               /\ OccursIn(Alternate, attrib["rel"])
                               /\ IsRss(attrib)
        IN /\ FieldOf(extracted, "urls") = Hrefs(html, HasCanonical)
           /\ FieldOf(extracted, "feeds") = Hrefs(html, HasFeed)
           /\ "urls" \in DOMAIN extracted => extracted["urls"] # <<>>
           /\ "feeds" \in DOMAIN extracted => extracted["feeds"] # <<>>
           /\ Len(FieldOf(extracted, "urls")) + Len(FieldOf(extracted, "feeds"))
                <= Cardinality(Tagged(html, "link"))

C10_Witness ==
    /\ technique = "HeadTags"
    /\ Len(html) = 2
    /\ FieldOf(extracted, "urls") = <<"/both/", "/non/">>
    /\ "feeds" \notin DOMAIN extracted

====
